---- MODULE Spec2Model ----
(***************************************************************************)
(* Crypto Analysis Dashboard (src/Crypto.py).                              *)
(*                                                                         *)
(* Two state machines are modelled.                                        *)
(*                                                                         *)
(*  Spec        the data pipeline of the dashboard, applied to every HTTP  *)
(*              outcome of a bounded family:                               *)
(*                 BinanceAPI.get_historical_klines      (lines 22-48)     *)
(*                 calculate_technical_indicators        (lines 116-138)   *)
(*                 the "Technical Indicators" block      (lines 277-297)   *)
(*              composed in the order in which the module composes them    *)
(*              (lines 232-297).                                           *)
(*                                                                         *)
(*  SpecScript  one Streamlit session: the module-level statements of the  *)
(*              script executed top to bottom on every script run, with    *)
(*              the session state that survives a run.  Every run ends at  *)
(*              line 222, where an unbound name is read.                   *)
(*                                                                         *)
(* Floating point numbers are modelled as exact rationals <<n, d>> in      *)
(* lowest terms with d > 0, extended with the IEEE special values          *)
(* NaN = <<0, 0>>, +inf = <<1, 0>> and -inf = <<-1, 0>>.  Sequences are    *)
(* 1-based: the candle the source calls index i is position i + 1.         *)
(***************************************************************************)
EXTENDS Integers, Sequences, FiniteSets, TLC

(***************************************************************************)
(* Bounds of the model.                                                    *)
(***************************************************************************)
\* Longest candle series fetched (the source asks for limit = 1000).
MaxLen == 35
\* Closing prices are drawn from 1 .. MaxPrice.
MaxPrice == 2
\* Script runs of one session.
MaxRuns == 3

(***************************************************************************)
(* Program constants.                                                      *)
(***************************************************************************)
\* ta.trend.sma_indicator(df['close'], window=20), ema_indicator(window=20)
Window20 == 20
\* ta.trend.sma_indicator(df['close'], window=50)
Window50 == 50
\* ta.momentum.rsi(df['close'], window=14)
RsiWindow == 14
\* ta.trend.MACD(df['close']): window_slow, window_fast, window_sign defaults
MacdSlow == 26
MacdFast == 12
MacdSign == 9
\* ta.volatility.BollingerBands(df['close']): window, window_dev defaults
BbWindow == 20
BbDev == 2
\* thresholds of the RSI colour
RsiHigh == 70
RsiLow == 30

(***************************************************************************)
(* float64 arithmetic, exact.                                              *)
(***************************************************************************)
Abs(x) == IF x < 0 THEN -x ELSE x

RECURSIVE GCD(_, _)
GCD(a, b) == IF b = 0 THEN a ELSE GCD(b, a % b)

LCM(a, b) == (a \div GCD(a, b)) * b

\* The rational n / d (d # 0) in lowest terms with a positive denominator.
Q(n, d) ==
    LET g == GCD(Abs(n), Abs(d))
        s == IF d < 0 THEN -1 ELSE 1
    IN  <<(s * n) \div g, (s * d) \div g>>

NaN == <<0, 0>>
PosInf == <<1, 0>>
NegInf == <<-1, 0>>
F(k) == <<k, 1>>

IsNaN(a) == a = NaN
IsFinite(a) == a[2] # 0

\* a + b and a - b for finite or NaN operands (NaN propagates).
FAdd(a, b) ==
    IF ~IsFinite(a) \/ ~IsFinite(b) THEN NaN
    ELSE LET l == LCM(a[2], b[2])
         IN  Q(a[1] * (l \div a[2]) + b[1] * (l \div b[2]), l)

FNeg(a) == <<-a[1], a[2]>>
FSub(a, b) == FAdd(a, FNeg(b))

FMul(a, b) ==
    IF ~IsFinite(a) \/ ~IsFinite(b) THEN NaN
    ELSE LET g1 == GCD(Abs(a[1]), b[2])
             g2 == GCD(Abs(b[1]), a[2])
         IN  Q((a[1] \div g1) * (b[1] \div g2), (a[2] \div g2) * (b[2] \div g1))

\* numpy.float64 true division: a zero divisor gives nan or an infinity and
\* a RuntimeWarning, never an exception.
NumpyDiv(a, b) ==
    IF ~IsFinite(a) \/ ~IsFinite(b) THEN NaN
    ELSE IF b[1] = 0
         THEN (IF a[1] = 0 THEN NaN ELSE IF a[1] > 0 THEN PosInf ELSE NegInf)
         ELSE FMul(a, Q(b[2], b[1]))

\* Comparisons of float64: every comparison with NaN is False.
FLt(a, b) ==
    /\ IsFinite(a)
    /\ IsFinite(b)
    /\ LET l == LCM(a[2], b[2])
       IN  a[1] * (l \div a[2]) < b[1] * (l \div b[2])

FGt(a, b) == FLt(b, a)

(***************************************************************************)
(* pandas and ta, as called by calculate_technical_indicators.  The        *)
(* library routines are modelled at the call that reaches them.            *)
(***************************************************************************)
RECURSIVE SumRange(_, _, _)
SumRange(x, lo, hi) ==
    IF lo > hi THEN F(0) ELSE FAdd(x[hi], SumRange(x, lo, hi - 1))

\* Series.rolling(window, min_periods=window).mean()
RollingMean(x, w) ==
    [i \in 1..Len(x) |->
        IF i < w THEN NaN ELSE NumpyDiv(SumRange(x, i - w + 1, i), F(w))]

\* Series.rolling(window, min_periods=window).std(ddof=0), squared.
RollingVar(x, w) ==
    LET sq == [i \in 1..Len(x) |-> FMul(x[i], x[i])]
        m  == RollingMean(x, w)
        m2 == RollingMean(sq, w)
    IN  [i \in 1..Len(x) |-> FSub(m2[i], FMul(m[i], m[i]))]

\* One step of Series.ewm(adjust=False).mean(): acc = <<average, number of
\* observations so far>>.  The first observation seeds the average; a
\* missing value leaves it alone.
EwmStep(acc, v, alpha) ==
    IF IsNaN(v) THEN acc
    ELSE IF acc[2] = 0 THEN <<v, 1>>
    ELSE <<FAdd(FMul(FSub(F(1), alpha), acc[1]), FMul(alpha, v)), acc[2] + 1>>

RECURSIVE EwmAcc(_, _, _)
EwmAcc(x, k, alpha) ==
    IF k = 0 THEN <<>>
    ELSE LET prev == EwmAcc(x, k - 1, alpha)
             last == IF k = 1 THEN <<NaN, 0>> ELSE prev[k - 1]
         IN  Append(prev, EwmStep(last, x[k], alpha))

\* Series.ewm(alpha=alpha, min_periods=minp, adjust=False).mean(): the
\* average is reported once minp observations have been seen.
EwmMean(x, alpha, minp) ==
    LET acc == EwmAcc(x, Len(x), alpha)
    IN  [i \in 1..Len(x) |-> IF acc[i][2] >= minp THEN acc[i][1] ELSE NaN]

\* ta.utils._sma / ta.trend.sma_indicator(close, window)
sma_indicator(close, window) == RollingMean(close, window)

\* A variant of ema_indicator that seeds the average with the simple mean of
\* the first window.
ema_indicator_SmaSeed(close, window) ==
    LET alpha == Q(2, window + 1)
        sma   == RollingMean(close, window)
        seeded == [i \in 1..Len(close) |->
                     IF i < window THEN NaN
                     ELSE IF i = window THEN sma[i] ELSE close[i]]
    IN  EwmMean(seeded, alpha, 1)

\* ta.utils._ema / ta.trend.ema_indicator(close, window):
\* series.ewm(span=window, min_periods=window, adjust=False).mean()
ema_indicator(close, window) == EwmMean(close, Q(2, window + 1), window)

\* close.diff(1)
Diff(x) == [i \in 1..Len(x) |-> IF i = 1 THEN NaN ELSE FSub(x[i], x[i - 1])]

\* diff.where(diff > 0, 0.0)
up_direction(diff) ==
    [i \in 1..Len(diff) |-> IF FGt(diff[i], F(0)) THEN diff[i] ELSE F(0)]

\* -diff.where(diff < 0, 0.0)
down_direction(diff) ==
    [i \in 1..Len(diff) |-> FNeg(IF FLt(diff[i], F(0)) THEN diff[i] ELSE F(0))]

\* A variant of RsiValue with the flat-market convention.
RsiValue_Flat50(emaup, emadn) ==
    IF emadn = F(0) /\ emaup = F(0) THEN F(50)
    ELSE IF emadn = F(0) THEN F(100)
    ELSE FSub(F(100), NumpyDiv(F(100), FAdd(F(1), NumpyDiv(emaup, emadn))))

\* np.where(emadn == 0, 100, 100 - (100 / (1 + emaup / emadn)))
RsiValue(emaup, emadn) ==
    IF emadn = F(0) THEN F(100)
    ELSE FSub(F(100), NumpyDiv(F(100), FAdd(F(1), NumpyDiv(emaup, emadn))))

\* A variant of rsi that leaves the first difference undefined, so that the
\* averages start one candle later.
rsi_SkipFirst(close, window) ==
    LET diff  == Diff(close)
        up    == [i \in 1..Len(diff) |-> IF i = 1 THEN NaN ELSE up_direction(diff)[i]]
        dn    == [i \in 1..Len(diff) |-> IF i = 1 THEN NaN ELSE down_direction(diff)[i]]
        emaup == EwmMean(up, Q(1, window), window)
        emadn == EwmMean(dn, Q(1, window), window)
    IN  [i \in 1..Len(close) |-> RsiValue(emaup[i], emadn[i])]

\* ta.momentum.rsi(close, window) = RSIIndicator(close, window).rsi()
rsi(close, window) ==
    LET diff  == Diff(close)
        emaup == EwmMean(up_direction(diff), Q(1, window), window)
        emadn == EwmMean(down_direction(diff), Q(1, window), window)
    IN  [i \in 1..Len(close) |-> RsiValue(emaup[i], emadn[i])]

\* ta.trend.MACD(close).macd(): fast EMA minus slow EMA.
macd(close) ==
    LET fast == ema_indicator(close, MacdFast)
        slow == ema_indicator(close, MacdSlow)
    IN  [i \in 1..Len(close) |-> FSub(fast[i], slow[i])]

\* A variant of macd_signal that reports the average from the first MACD
\* value on, without waiting for window_sign of them.
macd_signal_Eager(close) == EwmMean(macd(close), Q(2, MacdSign + 1), 1)

\* ta.trend.MACD(close).macd_signal(): the EMA of the MACD line.
macd_signal(close) == ema_indicator(macd(close), MacdSign)

\* ta.trend.MACD(close).macd_diff()
macd_diff(close) ==
    LET m == macd(close)
        s == macd_signal(close)
    IN  [i \in 1..Len(close) |-> FSub(m[i], s[i])]

\* mid + k * sqrt(var): a Bollinger band value.  The square root is kept
\* symbolic; two bands of one candle are equal exactly when var = 0.
Surd(mid, k, var) == [mid |-> mid, k |-> k, var |-> var]

\* ta.volatility.BollingerBands(close).bollinger_mavg()
bollinger_mavg(close) == RollingMean(close, BbWindow)

\* bollinger_hband(): mavg + window_dev * mstd
bollinger_hband(close) ==
    LET m == bollinger_mavg(close)
        v == RollingVar(close, BbWindow)
    IN  [i \in 1..Len(close) |-> Surd(m[i], BbDev, v[i])]

\* bollinger_lband(): mavg - window_dev * mstd
bollinger_lband(close) ==
    LET m == bollinger_mavg(close)
        v == RollingVar(close, BbWindow)
    IN  [i \in 1..Len(close) |-> Surd(m[i], -BbDev, v[i])]

(***************************************************************************)
(* HTTP responses and DataFrames.                                          *)
(*                                                                         *)
(* A JSON field is <<"int", v>> (a number), <<"str", v>> (a string holding *)
(* the decimal text of v) or <<"txt", 0>> (a string that is no number).    *)
(* A DataFrame is [columns, data]: the ordered column names and, for each  *)
(* name, the column's values.                                              *)
(***************************************************************************)
KlineColumns ==
    <<"timestamp", "open", "high", "low", "close", "volume", "close_time",
      "quote_volume", "trades", "taker_buy_base", "taker_buy_quote", "ignore">>

NumericColumns == {"open", "high", "low", "close", "volume", "quote_volume"}

IndicatorColumns ==
    <<"SMA_20", "SMA_50", "EMA_20", "RSI", "MACD", "MACD_Signal", "MACD_Hist",
      "BB_Upper", "BB_Lower", "BB_Middle">>

Range(s) == {s[i] : i \in 1..Len(s)}

Resp(kind, rows) == [kind |-> kind, rows |-> rows]

\* Closing prices: `base' throughout, except for the final Len(tail) candles.
\* (Every change of price adds a factor to the denominators of the averages
\* that follow it; prices that move only at the end keep the exact values
\* within TLC's integers.)
Closes(n, base, tail) ==
    [i \in 1..n |-> IF i <= n - Len(tail) THEN base ELSE tail[i - (n - Len(tail))]]

Prices == 1..MaxPrice

Tails == {<<>>} \cup {<<a>> : a \in Prices} \cup {<<a, b>> : a, b \in Prices}

CloseSeries ==
    {Closes(n, base, tail) : n \in 0..MaxLen, base \in Prices, tail \in Tails}

\* One kline row as Binance sends it, cut or padded to `width' fields; with
\* `bad', the close is not a number.
KlineRow(i, c, width, bad) ==
    LET full == <<<<"int", i>>, <<"str", c>>, <<"str", c>>, <<"str", c>>,
                  IF bad THEN <<"txt", 0>> ELSE <<"str", c>>, <<"str", 1>>,
                  <<"int", i>>, <<"str", c>>, <<"int", 1>>, <<"str", 1>>,
                  <<"str", c>>, <<"str", 0>>, <<"str", 0>>>>
    IN  SubSeq(full, 1, width)

KlineBody(closes, width, bad) ==
    Resp("list", [i \in 1..Len(closes) |->
                     KlineRow(i, closes[i], width, bad /\ i = Len(closes))])

\* What requests.get / response.json() can hand to the method.
Responses ==
    {Resp(k, <<>>) : k \in {"ConnectionError", "InvalidJSON", "null", "number", "object"}}
    \cup {KlineBody(c, Len(KlineColumns), FALSE) : c \in CloseSeries}
    \cup {KlineBody(c, w, bad) :
            c \in {x \in CloseSeries : Len(x) \in 1..2},
            w \in {Len(KlineColumns) - 1, Len(KlineColumns), Len(KlineColumns) + 1},
            bad \in BOOLEAN}

\* The failures the caller must be told about with None.
IsKlineList(resp) ==
    /\ resp.kind = "list"
    /\ \A i \in 1..Len(resp.rows) :
          /\ Len(resp.rows[i]) = Len(KlineColumns)
          /\ \A j \in 1..Len(KlineColumns) :
                KlineColumns[j] \in NumericColumns => resp.rows[i][j][1] # "txt"

NoneResult == <<"None">>
FrameResult(frame) == <<"DataFrame", frame>>

Rows(frame) == Len(frame.data[frame.columns[1]])

ColumnIndex(name) == CHOOSE j \in 1..Len(KlineColumns) : KlineColumns[j] = name

\* pd.to_datetime(value, unit='ms') and float(value) of one field
ToDatetime(f) == <<"datetime", f[2]>>
AsFloat(f) == F(f[2])

\* pd.DataFrame(data, columns=[...]): None and a dict without any of the
\* column names give a frame without rows; a scalar and rows of another
\* width raise ValueError.
DataFrameRaises(resp) ==
    \/ resp.kind = "number"
    \/ /\ resp.kind = "list"
       /\ \E i \in 1..Len(resp.rows) : Len(resp.rows[i]) # Len(KlineColumns)

NewDataFrame(resp) ==
    LET rows == IF resp.kind = "list" THEN resp.rows ELSE <<>>
    IN  [columns |-> KlineColumns,
         data |-> [c \in Range(KlineColumns) |->
                      [i \in 1..Len(rows) |-> rows[i][ColumnIndex(c)]]]]

\* df['timestamp'] = pd.to_datetime(...); df[numeric] = df[numeric].astype(float)
ConversionRaises(frame) ==
    \E i \in 1..Rows(frame) :
        \/ frame.data["timestamp"][i][1] = "txt"
        \/ \E c \in NumericColumns : frame.data[c][i][1] = "txt"

Converted(frame) ==
    [frame EXCEPT !.data =
        [c \in DOMAIN @ |->
            [i \in 1..Rows(frame) |->
                IF c = "timestamp" THEN ToDatetime(@[c][i])
                ELSE IF c \in NumericColumns THEN AsFloat(@[c][i])
                ELSE @[c][i]]]]

\* BinanceAPI.get_historical_klines: every exception inside the try block is
\* reported with st.error and answered with None.
get_historical_klines(resp) ==
    IF resp.kind \in {"ConnectionError", "InvalidJSON"} THEN NoneResult
    ELSE IF DataFrameRaises(resp) THEN NoneResult
    ELSE IF ConversionRaises(NewDataFrame(resp)) THEN NoneResult
    ELSE FrameResult(Converted(NewDataFrame(resp)))

\* df[name] = values: the column is added to (or replaced in) the frame.
SetColumn(frame, name, values) ==
    [columns |-> IF name \in Range(frame.columns) THEN frame.columns
                 ELSE Append(frame.columns, name),
     data |-> [c \in DOMAIN frame.data \cup {name} |->
                  IF c = name THEN values ELSE frame.data[c]]]

\* The body of calculate_technical_indicators, statement by statement.
WithIndicators(frame) ==
    LET close == frame.data["close"]
        f1  == SetColumn(frame, "SMA_20", sma_indicator(close, Window20))
        f2  == SetColumn(f1, "SMA_50", sma_indicator(close, Window50))
        f3  == SetColumn(f2, "EMA_20", ema_indicator(close, Window20))
        f4  == SetColumn(f3, "RSI", rsi(close, RsiWindow))
        f5  == SetColumn(f4, "MACD", macd(close))
        f6  == SetColumn(f5, "MACD_Signal", macd_signal(close))
        f7  == SetColumn(f6, "MACD_Hist", macd_diff(close))
        f8  == SetColumn(f7, "BB_Upper", bollinger_hband(close))
        f9  == SetColumn(f8, "BB_Lower", bollinger_lband(close))
        f10 == SetColumn(f9, "BB_Middle", bollinger_mavg(close))
    IN  f10

\* A variant of calculate_technical_indicators that works on a copy of the
\* frame and leaves the caller's object alone.
calculate_technical_indicators_Copy(h, ref) ==
    <<Append(h, WithIndicators(h[ref])), Len(h) + 1>>

\* calculate_technical_indicators(df): the object `ref' of heap `h' is
\* changed in place and `ref' itself is returned.  The result is
\* <<heap after the call, returned reference>>.
calculate_technical_indicators(h, ref) ==
    <<[h EXCEPT ![ref] = WithIndicators(@)], ref>>

(***************************************************************************)
(* The "Technical Indicators" block: the latest row and its four metrics.  *)
(***************************************************************************)
\* df.iloc[-1]: the last row, one value per column (numpy scalars).
LastRow(frame) == [c \in DOMAIN frame.data |-> frame.data[c][Rows(frame)]]

\* "red" if latest['RSI'] > 70 else "green" if latest['RSI'] < 30 else "white"
rsi_color(row) ==
    IF FGt(row["RSI"], F(RsiHigh)) THEN "red"
    ELSE IF FLt(row["RSI"], F(RsiLow)) THEN "green"
    ELSE "white"

\* "red" if latest['MACD'] < latest['MACD_Signal'] else "green"
macd_signal_color(row) ==
    IF FLt(row["MACD"], row["MACD_Signal"]) THEN "red" ELSE "green"

\* "red" if latest['close'] < latest['SMA_20'] else "green"
price_sma20(row) ==
    IF FLt(row["close"], row["SMA_20"]) THEN "red" ELSE "green"

\* (latest['close'] / latest['SMA_20'] - 1) * 100
price_sma20_pct(row) ==
    FMul(FSub(NumpyDiv(row["close"], row["SMA_20"]), F(1)), F(100))

\* A variant of bb_position in which the operands are Python floats: a zero
\* divisor raises ZeroDivisionError.
bb_position_PyFloat(row) ==
    LET lo  == row["BB_Lower"]
        hi  == row["BB_Upper"]
        num == FSub(row["close"], lo.mid)
    IN  IF ~IsFinite(num) \/ ~IsFinite(lo.var) \/ ~IsFinite(hi.var)
        THEN [cls |-> "nan", num |-> NaN, var |-> NaN]
        ELSE IF hi.mid = lo.mid /\ hi.var = F(0) /\ lo.var = F(0)
        THEN [cls |-> "ZeroDivisionError", num |-> num, var |-> F(0)]
        ELSE [cls |-> "finite", num |-> num, var |-> hi.var]

\* (latest['close'] - latest['BB_Lower']) / (latest['BB_Upper'] - latest['BB_Lower'])
\* on numpy.float64 scalars.  With lower = mid - 2 sqrt(var) and
\* upper = mid + 2 sqrt(var) the divisor is 4 sqrt(var); the quotient is
\* cls "nan" or "inf" for an undefined operand or a zero divisor, and else
\* the finite number (num + 2 sqrt(var)) / (4 sqrt(var)).
bb_position(row) ==
    LET lo  == row["BB_Lower"]
        hi  == row["BB_Upper"]
        num == FSub(row["close"], lo.mid)
    IN  IF ~IsFinite(num) \/ ~IsFinite(lo.var) \/ ~IsFinite(hi.var)
        THEN [cls |-> "nan", num |-> NaN, var |-> NaN]
        ELSE IF hi.mid = lo.mid /\ hi.var = F(0) /\ lo.var = F(0)
        THEN LET q == NumpyDiv(num, F(0))
             IN  [cls |-> IF IsNaN(q) THEN "nan" ELSE "inf", num |-> q, var |-> F(0)]
        ELSE [cls |-> "finite", num |-> num, var |-> hi.var]

Metrics(row) ==
    [rsi_color |-> rsi_color(row), rsi |-> row["RSI"],
     macd_signal |-> macd_signal_color(row), macd |-> row["MACD"],
     price_sma20 |-> price_sma20(row), pct |-> price_sma20_pct(row),
     bb_position |-> bb_position(row)]

(***************************************************************************)
(* State.                                                                  *)
(***************************************************************************)
VARIABLES
    \* the data pipeline
    response,       \* what the HTTP request of get_historical_klines met
    pc,             \* the statement the pipeline is at
    heap,           \* the DataFrame objects, by reference (1, 2, ...)
    df,             \* the module's name df: a reference, or None
    errors,         \* the messages shown with st.error
    latest,         \* the module's name latest
    metrics,        \* what the four st.metric calls were given
    exception,      \* the exception that ended the pipeline, if any
    \* the Streamlit session
    run,            \* number of the script run
    line,           \* the statement the script run is at
    names,          \* the module-level names bound in this script run
    session_state,  \* st.session_state: survives the script runs
    exchange_info,  \* the module's name exchange_info
    trading_pairs,  \* the module's name trading_pairs
    selected_timeframe,  \* the module's name selected_timeframe
    binance,        \* the fields of the BinanceAPI object of this run
    raised          \* the exception that ended the script run, if any

pipeVars == <<response, pc, heap, df, errors, latest, metrics, exception>>
scriptVars == <<run, line, names, session_state, exchange_info, trading_pairs,
                selected_timeframe, binance, raised>>
vars == <<pipeVars, scriptVars>>

None == 0

PipeInit ==
    /\ response = Resp("pending", <<>>)
    /\ pc = "L232"
    /\ heap = <<>>
    /\ df = None
    /\ errors = {}
    /\ latest = <<>>
    /\ metrics = <<>>
    /\ exception = "none"

ScriptInit ==
    /\ run = 1
    /\ line = "L192"
    /\ names = {}
    /\ session_state = {}
    /\ exchange_info = "unbound"
    /\ trading_pairs = {}
    /\ selected_timeframe = "unbound"
    /\ binance = [ws |-> "None", current_price |-> "None", current_volume |-> "None"]
    /\ raised = "none"

(***************************************************************************)
(* The data pipeline (lines 232-297).  The ticker metrics and the chart    *)
(* (lines 242-275) only display and are left out.                          *)
(***************************************************************************)
\* df = binance.get_historical_klines(...)
Fetch ==
    /\ pc = "L232"
    /\ \E r \in Responses :
          LET res == get_historical_klines(r)
          IN  /\ response' = r
              /\ IF res[1] = "None"
                 THEN /\ df' = None
                      /\ heap' = heap
                      /\ errors' = errors \cup {"Error fetching historical data"}
                 ELSE /\ heap' = Append(heap, res[2])
                      /\ df' = Len(heap) + 1
                      /\ errors' = errors
    /\ pc' = "L237"
    /\ UNCHANGED <<latest, metrics, exception>>
    /\ UNCHANGED scriptVars

\* if df is not None:
IfFrame ==
    /\ pc = "L237"
    /\ pc' = IF df # None THEN "L239" ELSE "skipped"
    /\ UNCHANGED <<response, heap, df, errors, latest, metrics, exception>>
    /\ UNCHANGED scriptVars

\* df = calculate_technical_indicators(df)
Calculate ==
    /\ pc = "L239"
    /\ LET r == calculate_technical_indicators(heap, df)
       IN  /\ heap' = r[1]
           /\ df' = r[2]
    /\ pc' = "L279"
    /\ UNCHANGED <<response, errors, latest, metrics, exception>>
    /\ UNCHANGED scriptVars

\* latest = df.iloc[-1] and the four metrics; iloc[-1] of a frame without
\* rows raises IndexError.
Classify ==
    /\ pc = "L279"
    /\ IF Rows(heap[df]) = 0
       THEN /\ exception' = "IndexError"
            /\ pc' = "raised"
            /\ UNCHANGED <<latest, metrics>>
       ELSE /\ latest' = LastRow(heap[df])
            /\ metrics' = Metrics(LastRow(heap[df]))
            /\ pc' = "done"
            /\ UNCHANGED exception
    /\ UNCHANGED <<response, heap, df, errors>>
    /\ UNCHANGED scriptVars

Init == PipeInit /\ ScriptInit

Next ==
    \/ Fetch
    \/ IfFrame
    \/ Calculate
    \/ Classify

Spec == Init /\ [][Next]_vars

(***************************************************************************)
(* One Streamlit session (lines 192-229).  Streamlit executes the script   *)
(* from the top in a fresh module namespace on every script run; only      *)
(* st.session_state survives.  An exception ends the script run.           *)
(***************************************************************************)
Pairs == {"BTCUSDT", "ETHUSDT"}

\* timeframe_options.keys()
TimeframeOptions == {"1 Hour", "4 Hours", "1 Day", "1 Week"}

\* What binance.get_exchange_info() returns: None after an exception, else
\* the JSON body, with a 'symbols' list or (an error body) without one.
ExchangeInfos ==
    {[kind |-> "None", symbols |-> {}], [kind |-> "error", symbols |-> {}]}
    \cup {[kind |-> "info", symbols |-> ps] : ps \in SUBSET Pairs}

\* The module-level names a statement reads.
Reads(l) ==
    CASE l = "L202" -> {"binance"}
      [] l = "L203" -> {"exchange_info"}
      [] l = "L216" -> {"timeframe_options"}
      [] l = "L222" -> {"selected_pair"}
      [] OTHER -> {}

\* binance = BinanceAPI()  (__init__, lines 15-20), and the page set-up
NewBinance ==
    /\ line = "L192"
    /\ binance' = [ws |-> "None", current_price |-> "None", current_volume |-> "None"]
    /\ names' = names \cup {"binance"}
    /\ line' = "L202"
    /\ UNCHANGED <<run, session_state, exchange_info, trading_pairs,
                   selected_timeframe, raised>>
    /\ UNCHANGED pipeVars

\* exchange_info = binance.get_exchange_info()
GetExchangeInfo ==
    /\ line = "L202"
    /\ \E info \in ExchangeInfos : exchange_info' = info
    /\ names' = names \cup {"exchange_info"}
    /\ line' = "L203"
    /\ UNCHANGED <<run, session_state, trading_pairs, selected_timeframe,
                   binance, raised>>
    /\ UNCHANGED pipeVars

\* if exchange_info and 'symbols' in exchange_info: ... else: trading_pairs = []
TradingPairs ==
    /\ line = "L203"
    /\ trading_pairs' = IF exchange_info.kind = "info" THEN exchange_info.symbols ELSE {}
    /\ names' = names \cup {"trading_pairs", "symbol"}
    /\ line' = "L210"
    /\ UNCHANGED <<run, session_state, exchange_info, selected_timeframe,
                   binance, raised>>
    /\ UNCHANGED pipeVars

\* timeframe_options = {...}
TimeframeDict ==
    /\ line = "L210"
    /\ names' = names \cup {"timeframe_options"}
    /\ line' = "L216"
    /\ UNCHANGED <<run, session_state, exchange_info, trading_pairs,
                   selected_timeframe, binance, raised>>
    /\ UNCHANGED pipeVars

\* selected_timeframe = st.sidebar.selectbox(...): the user's choice
SelectTimeframe ==
    /\ line = "L216"
    /\ \E t \in TimeframeOptions : selected_timeframe' = t
    /\ names' = names \cup {"selected_timeframe"}
    /\ line' = "L219"
    /\ UNCHANGED <<run, session_state, exchange_info, trading_pairs, binance, raised>>
    /\ UNCHANGED pipeVars

\* if 'websocket_started' not in st.session_state: ... = False
\* (session_state is the set of <<key, value>> pairs)
InitSessionFlag ==
    /\ line = "L219"
    /\ session_state' =
          IF \E kv \in session_state : kv[1] = "websocket_started"
          THEN session_state
          ELSE session_state \cup {<<"websocket_started", FALSE>>}
    /\ line' = "L222"
    /\ UNCHANGED <<run, names, exchange_info, trading_pairs, selected_timeframe,
                   binance, raised>>
    /\ UNCHANGED pipeVars

\* if selected_pair: -- the name is looked up first.  No statement of the
\* script binds it, so the lookup raises NameError and the script run ends
\* here; lines 223-388 are not reached.
IfSelectedPair ==
    /\ line = "L222"
    /\ IF Reads(line) \subseteq names
       THEN /\ line' = "L223"
            /\ raised' = raised
       ELSE /\ line' = "end"
            /\ raised' = "NameError"
    /\ UNCHANGED <<run, names, session_state, exchange_info, trading_pairs,
                   selected_timeframe, binance>>
    /\ UNCHANGED pipeVars

\* The next script run (a rerun after a widget interaction).
Rerun ==
    /\ line = "end"
    /\ run < MaxRuns
    /\ run' = run + 1
    /\ line' = "L192"
    /\ names' = {}
    /\ exchange_info' = "unbound"
    /\ trading_pairs' = {}
    /\ selected_timeframe' = "unbound"
    /\ raised' = "none"
    /\ UNCHANGED <<session_state, binance>>
    /\ UNCHANGED pipeVars

NextScript ==
    \/ NewBinance
    \/ GetExchangeInfo
    \/ TradingPairs
    \/ TimeframeDict
    \/ SelectTimeframe
    \/ InitSessionFlag
    \/ IfSelectedPair
    \/ Rerun

SpecScript == Init /\ [][NextScript]_vars

(***************************************************************************)
(* Properties.                                                             *)
(***************************************************************************)
\* The pipeline is past calculate_technical_indicators.
Calculated == pc \in {"L279", "done", "raised"}

Frame == heap[df]
Col(name) == Frame.data[name]
NRows == Rows(Frame)

RECURSIVE Pow(_, _)
Pow(a, k) == IF k = 0 THEN F(1) ELSE FMul(a, Pow(a, k - 1))

\* The exponentially weighted mean of x[1..i] in closed form:
\* x[1] + SUM over j in 2..i of alpha (1 - alpha)^(i - j) (x[j] - x[1]).
RECURSIVE EwmClosedSum(_, _, _, _)
EwmClosedSum(x, i, j, alpha) ==
    IF j < 2 THEN F(0)
    ELSE FAdd(EwmClosedSum(x, i, j - 1, alpha),
              IF x[j] = x[1] THEN F(0)
              ELSE FMul(FMul(alpha, Pow(FSub(F(1), alpha), i - j)),
                        FSub(x[j], x[1])))

EwmClosed(x, i, alpha) == FAdd(x[1], EwmClosedSum(x, i, i, alpha))

\* Gains and losses of the closing prices; the first candle has neither.
Gains(close) ==
    [j \in 1..Len(close) |->
        IF j > 1 /\ FGt(close[j], close[j - 1]) THEN FSub(close[j], close[j - 1]) ELSE F(0)]

Losses(close) ==
    [j \in 1..Len(close) |->
        IF j > 1 /\ FLt(close[j], close[j - 1]) THEN FSub(close[j - 1], close[j]) ELSE F(0)]

\* 100 g / (g + l), and 100 when there is no loss.
RsiOf(g, l) ==
    IF l = F(0) THEN F(100) ELSE NumpyDiv(FMul(F(100), g), FAdd(g, l))

\* ------------------------------------------------------------------ C1
\* C1: whenever the request fails, the body is not JSON, or the body is not
\* a list of 12-field kline rows with numeric OHLCV values,
\* get_historical_klines returns None; and calculate_technical_indicators is
\* called only with a result that is not None.
C1_FailureGivesNone ==
    /\ (response.kind # "pending" /\ ~IsKlineList(response)) => df = None
    /\ pc = "L239" => df # None

\* ------------------------------------------------------------------ C2
\* C2: for the latest candle, each classification reports "undefined"
\* whenever an indicator value it needs is undefined, and never one of its
\* defined outcomes.
C2_UndefinedReported ==
    pc = "done" =>
        /\ IsNaN(latest["RSI"]) => metrics.rsi_color \notin {"red", "green", "white"}
        /\ (IsNaN(latest["MACD"]) \/ IsNaN(latest["MACD_Signal"]))
              => metrics.macd_signal \notin {"red", "green"}
        /\ IsNaN(latest["SMA_20"]) => metrics.price_sma20 \notin {"red", "green"}
        /\ (IsNaN(latest["BB_Upper"].mid) \/ IsNaN(latest["BB_Lower"].mid))
              => metrics.bb_position.cls = "nan"

\* ------------------------------------------------------------------ C3
\* BB_Upper == BB_Lower for a row with defined bands.
BandsEqual(row) ==
    /\ IsFinite(row["BB_Upper"].mid)
    /\ row["BB_Upper"].mid = row["BB_Lower"].mid
    /\ row["BB_Upper"].var = F(0)
    /\ row["BB_Lower"].var = F(0)

\* C3: when the latest candle has BB_Upper == BB_Lower, the band position is
\* the undefined value (nan) and the block does not raise.
C3_ZeroBandWidth ==
    (pc \in {"done", "raised"} /\ NRows > 0 /\ BandsEqual(LastRow(Frame)))
        => (pc = "done" /\ exception = "none" /\ metrics.bb_position.cls = "nan")

C3_Witness ==
    /\ pc = "done"
    /\ BandsEqual(latest)
    /\ metrics.bb_position.cls = "nan"

\* ------------------------------------------------------------------ C4
EmaAlpha == Q(2, Window20 + 1)

EmaDefinedFrom(first) ==
    \A i \in 1..NRows : IsFinite(Col("EMA_20")[i]) <=> i >= first

EmaRecursion ==
    \A i \in (Window20 + 1)..NRows :
        Col("EMA_20")[i] =
            FAdd(FMul(EmaAlpha, Col("close")[i]),
                 FMul(FSub(F(1), EmaAlpha), Col("EMA_20")[i - 1]))

\* C4 as claimed: EMA_20[i] is defined iff i >= 19, EMA_20[19] equals
\* SMA_20[19], and every later value follows the recursion.
C4_Original ==
    Calculated =>
        /\ EmaDefinedFrom(Window20)
        /\ NRows >= Window20 => Col("EMA_20")[Window20] = Col("SMA_20")[Window20]
        /\ EmaRecursion

\* C4 amended: EMA_20[i] is defined iff i >= 19; every defined value, the
\* first included, is the exponentially weighted mean of close[0..i] seeded
\* with close[0] (alpha = 2/21); every later value follows the recursion.
C4_EmaSeededAtFirstClose ==
    Calculated =>
        /\ EmaDefinedFrom(Window20)
        /\ \A i \in Window20..NRows :
              Col("EMA_20")[i] = EwmClosed(Col("close"), i, EmaAlpha)
        /\ EmaRecursion

C4_Witness ==
    /\ Calculated
    /\ NRows > Window20
    /\ IsFinite(Col("EMA_20")[Window20])
    /\ Col("EMA_20")[Window20] # Col("SMA_20")[Window20]
    /\ Col("close")[NRows] # Col("close")[NRows - 1]

\* ------------------------------------------------------------------ C5
NoGainUpTo(i) == \A j \in 1..i : Gains(Col("close"))[j] = F(0)
NoLossUpTo(i) == \A j \in 1..i : Losses(Col("close"))[j] = F(0)

\* C5 as claimed: where average gain and average loss are both 0, RSI is
\* 50; RSI is 100 only when average loss is 0 and average gain is above 0.
C5_Original ==
    Calculated =>
        \A i \in 1..NRows :
            IsFinite(Col("RSI")[i]) =>
                /\ (NoGainUpTo(i) /\ NoLossUpTo(i)) => Col("RSI")[i] = F(50)
                /\ Col("RSI")[i] = F(100) => (NoLossUpTo(i) /\ ~NoGainUpTo(i))

\* C5 amended: at a defined index RSI is 100 exactly when average loss is 0,
\* whether average gain is 0 (a flat series) or above 0.
C5_FlatIs100 ==
    Calculated =>
        \A i \in RsiWindow..NRows : Col("RSI")[i] = F(100) <=> NoLossUpTo(i)

C5_Witness ==
    /\ Calculated
    /\ NRows >= 30
    /\ NoGainUpTo(NRows)
    /\ NoLossUpTo(NRows)
    /\ Col("RSI")[NRows] = F(100)

\* ------------------------------------------------------------------ C6
RsiAlpha == Q(1, RsiWindow)

RsiDefinedFrom(first) ==
    \A i \in 1..NRows : IsFinite(Col("RSI")[i]) <=> i >= first

\* C6 as claimed: RSI is undefined at every index below 14 and defined from
\* index 14 on, where the averages are the simple means of deltas 1..14.
C6_Original ==
    Calculated =>
        /\ RsiDefinedFrom(RsiWindow + 1)
        /\ NRows > RsiWindow =>
              Col("RSI")[RsiWindow + 1] =
                  RsiOf(NumpyDiv(SumRange(Gains(Col("close")), 2, RsiWindow + 1), F(RsiWindow)),
                        NumpyDiv(SumRange(Losses(Col("close")), 2, RsiWindow + 1), F(RsiWindow)))

\* C6 amended: RSI is undefined at every index below 13 and defined from
\* index 13 on; the averages start at 0 at index 0 and are Wilder-smoothed
\* from there, avg[i] = (avg[i-1] * 13 + x[i]) / 14 for every i >= 1, with
\* no simple-mean seed.
C6_RsiFromIndex13 ==
    Calculated =>
        /\ RsiDefinedFrom(RsiWindow)
        /\ \A i \in RsiWindow..NRows :
              Col("RSI")[i] =
                  RsiOf(EwmClosed(Gains(Col("close")), i, RsiAlpha),
                        EwmClosed(Losses(Col("close")), i, RsiAlpha))

C6_Witness ==
    /\ Calculated
    /\ NRows > RsiWindow
    /\ IsFinite(Col("RSI")[RsiWindow])
    /\ Col("RSI")[RsiWindow + 1] # F(100)

\* ------------------------------------------------------------------ C7
DefinedFrom(name, first) ==
    \A i \in 1..NRows : IsFinite(Col(name)[i]) <=> i >= first

\* C7 as claimed: MACD, MACD_Signal and MACD_Hist are all undefined below
\* index 33 and all defined from index 33 on.
C7_Original ==
    Calculated =>
        /\ DefinedFrom("MACD", MacdSlow + MacdSign - 1)
        /\ DefinedFrom("MACD_Signal", MacdSlow + MacdSign - 1)
        /\ DefinedFrom("MACD_Hist", MacdSlow + MacdSign - 1)

\* C7 amended: MACD is defined from index 25 on; MACD_Signal and MACD_Hist
\* are defined from index 33 on.
C7_MacdFrom25SignalFrom33 ==
    Calculated =>
        /\ DefinedFrom("MACD", MacdSlow)
        /\ DefinedFrom("MACD_Signal", MacdSlow + MacdSign - 1)
        /\ DefinedFrom("MACD_Hist", MacdSlow + MacdSign - 1)

C7_Witness ==
    /\ Calculated
    /\ NRows >= MacdSlow + MacdSign - 1
    /\ IsFinite(Col("MACD")[MacdSlow])
    /\ IsNaN(Col("MACD_Signal")[MacdSlow])
    /\ IsFinite(Col("MACD_Signal")[NRows])

\* ------------------------------------------------------------------ C8
\* C8 as claimed: the call leaves the caller's object as it was and returns
\* the indicators as a separate result of the same length.
C8_Original ==
    [][pc = "L239" =>
          /\ heap'[df] = heap[df]
          /\ df' # df
          /\ Rows(heap'[df']) = Rows(heap[df])]_vars

\* C8 amended: the call changes the frame it is given in place and returns
\* that same object: the ten indicator columns are added to it, the twelve
\* candle columns keep their values, the number of rows is unchanged and
\* every indicator column has one entry per row.
C8_InPlace ==
    [][pc = "L239" =>
          /\ df' = df
          /\ Len(heap') = Len(heap)
          /\ heap'[df].columns = heap[df].columns \o IndicatorColumns
          /\ \A c \in Range(KlineColumns) : heap'[df].data[c] = heap[df].data[c]
          /\ \A c \in Range(IndicatorColumns) :
                Len(heap'[df].data[c]) = Rows(heap[df])]_vars

C8_Witness ==
    /\ pc = "L279"
    /\ NRows > 0
    /\ Frame.columns = KlineColumns \o IndicatorColumns

\* ------------------------------------------------------------------ C9
\* C9: on every path of a script run, every module-level name is assigned
\* before it is read.
C9_AssignedBeforeRead == Reads(line) \subseteq names

====
